---- MODULE Spec2Model ----
(***************************************************************************)
(* Timeable (src/timeable.js): a countdown widget bound to a DOM element.  *)
(* The widget, the element it renders to and the host's interval scheduler *)
(* are modelled as one state machine.  JavaScript is single threaded, so   *)
(* every public call and every firing of the interval callback is one      *)
(* atomic action, including the calls that user callbacks make from inside *)
(* onTick / onComplete.                                                    *)
(***************************************************************************)
EXTENDS Integers, Sequences, FiniteSets, TLC

VARIABLES
    element,        \* this.element: the resolved element, or NULL
    duration,       \* this.duration
    remainingTime,  \* this.remainingTime
    interval,       \* this.interval: handle (>= 1), NoHandle (null) or Undefined
    format,         \* this.format
    onComplete,     \* this.onComplete: NoCallback or the calls the function makes
    onTick,         \* this.onTick: NoCallback or the calls the function makes
    innerText,      \* element.innerText
    classList,      \* element.classList
    timers,         \* scheduler: handles of the interval callbacks still active
    nextId,         \* scheduler: the handle the next setInterval returns
    result,         \* what the caller holds: "timer" or "null"
    via,            \* how the widget was made: "new" or "initializeTimer"
    threw,          \* the last call ended in an uncaught TypeError
    completeCalls,  \* history: invocations of onComplete since construction
    epochCompletes, \* history: invocations of onComplete since construction / last reset()
    epochDecs,      \* history: ticks that found remainingTime > 0 since construction / last reset()
    onTickLog,      \* history: <<argument, innerText seen>> of every onTick invocation
    lastOp,         \* history: the last operation performed
    prev,           \* history: remainingTime, interval, innerText, classList before lastOp
    nTicks,         \* history: firings of the interval callback since construction
    nCalls,         \* history: public calls made by the host since construction
    starts,         \* history: host calls of start() since construction / last host reset()
    others,         \* history: host calls other than start()/reset() since then
    resumedAt       \* history: remainingTime at the last host start() that scheduled a callback

vars == <<element, duration, remainingTime, interval, format, onComplete, onTick,
          innerText, classList, timers, nextId, result, via, threw,
          completeCalls, epochCompletes, epochDecs, onTickLog, lastOp, prev, nTicks,
          nCalls, starts, others, resumedAt>>

(***************************************************************************)
(* Bounds of the model.                                                    *)
(***************************************************************************)
MaxDuration == 3
MaxTicks == 5
MaxCalls == 3
MaxSeconds == 3661

(***************************************************************************)
(* Values.                                                                 *)
(***************************************************************************)
NULL == "null"                 \* document.getElementById found nothing
NoHandle == 0                  \* this.interval = null
Undefined == -1                \* a numeric field the constructor never assigned
NoCallback == <<"null">>       \* onTick / onComplete is null (or never assigned)
FirstHandle == 1               \* handles of setInterval are positive integers

Durations == 0..MaxDuration
Formats == {"", "ss", "hh:mm:ss"}     \* options.format; "" is an absent option
FormatSeconds == 0..MaxSeconds       \* durations of the formatting runs
FormatInputs == {"", "ss", "mm:ss", "hh:mm:ss", "hh", "mm", "hh:mm", "hh:ss", "xx"}
OnTickBodies == {<<>>, <<"pause">>, <<"start">>, <<"reset">>, <<"complete">>,
                 <<"reset", "start">>}
OnCompleteBodies == {<<>>, <<"pause">>, <<"start">>, <<"reset">>, <<"reset", "start">>}

(***************************************************************************)
(* Time formatting.                                                        *)
(***************************************************************************)
\* padZero that never pads.
padZeroNever(num) == ToString(num)

padZero(num) == IF num < 10 THEN "0" \o ToString(num) ELSE ToString(num)

includes(str, tok) ==
    \E i \in 1..(Len(str) - Len(tok) + 1) : SubSeq(str, i, i + Len(tok) - 1) = tok

formatTime(fmt, seconds) ==
    LET hrs == seconds \div 3600
        mins == (seconds % 3600) \div 60
        secs == seconds % 60
        t1 == IF includes(fmt, "hh") THEN padZero(hrs) \o ":" ELSE ""
        t2 == IF includes(fmt, "mm") THEN t1 \o padZero(mins) \o ":" ELSE t1
        t3 == IF includes(fmt, "ss") THEN t2 \o padZero(secs) ELSE t2
    IN t3

(***************************************************************************)
(* The widget, its element and the scheduler as one record; the methods    *)
(* are functions from record to record.                                    *)
(***************************************************************************)
World ==
    [element |-> element, duration |-> duration, remainingTime |-> remainingTime,
     interval |-> interval, format |-> format, onComplete |-> onComplete,
     onTick |-> onTick, innerText |-> innerText, classList |-> classList,
     timers |-> timers, nextId |-> nextId, threw |-> FALSE,
     completeCalls |-> completeCalls, epochCompletes |-> epochCompletes,
     epochDecs |-> epochDecs, onTickLog |-> onTickLog]

Truthy(handle) == handle > NoHandle

setInterval(w) ==
    [w EXCEPT !.interval = w.nextId, !.timers = @ \cup {w.nextId}, !.nextId = @ + 1]

clearInterval(w, handle) == [w EXCEPT !.timers = @ \ {handle}]

updateDisplay(w) ==
    IF w.element = NULL
    THEN [w EXCEPT !.threw = TRUE]
    ELSE [w EXCEPT !.innerText = formatTime(w.format, w.remainingTime)]

render(w) ==
    IF w.element = NULL
    THEN [w EXCEPT !.threw = TRUE]
    ELSE [w EXCEPT !.classList = @ \cup {"timeable-timer"},
                   !.innerText = formatTime(w.format, w.remainingTime)]

\* start() without the already-running guard.
startUnguarded(w) == setInterval(w)

\* start() that restarts the countdown from the full duration.
startFromTop(w) ==
    IF Truthy(w.interval) THEN w
    ELSE setInterval([w EXCEPT !.remainingTime = w.duration])

\* start() that refuses to run once the "complete" marker is set.
startGuardsComplete(w) ==
    IF Truthy(w.interval) \/ "complete" \in w.classList THEN w ELSE setInterval(w)

start(w) ==
    IF Truthy(w.interval) THEN w ELSE setInterval(w)

\* pause() that forgets clearInterval.
pauseLeaksTimer(w) ==
    IF Truthy(w.interval) THEN [w EXCEPT !.interval = NoHandle] ELSE w

\* pause() that forgets to null the handle.
pauseKeepsHandle(w) ==
    IF Truthy(w.interval) THEN clearInterval(w, w.interval) ELSE w

pause(w) ==
    IF Truthy(w.interval)
    THEN [clearInterval(w, w.interval) EXCEPT !.interval = NoHandle]
    ELSE w

\* reset() that does not pause.
resetNoPause(w) ==
    LET r == [w EXCEPT !.remainingTime = w.duration]
        u == updateDisplay(r)
    IN IF u.threw THEN u
       ELSE [u EXCEPT !.classList = @ \ {"complete"}, !.epochCompletes = 0,
                    !.epochDecs = 0]

reset(w) ==
    LET p == pause(w)
        r == [p EXCEPT !.remainingTime = p.duration]
        u == updateDisplay(r)
    IN IF u.threw THEN u
       ELSE [u EXCEPT !.classList = @ \ {"complete"}, !.epochCompletes = 0,
                    !.epochDecs = 0]

\* A callback body made only of start / pause / reset calls.
RECURSIVE RunPlain(_, _)
RunPlain(body, w) ==
    IF body = <<>> THEN w
    ELSE LET op == Head(body)
             w1 == CASE op = "start" -> start(w)
                      [] op = "pause" -> pause(w)
                      [] op = "reset" -> reset(w)
         IN RunPlain(Tail(body), w1)

InvokeOnComplete(w) ==
    RunPlain(w.onComplete,
             [w EXCEPT !.completeCalls = @ + 1, !.epochCompletes = @ + 1])

\* complete() that does not pause.
completeNoPause(w) ==
    IF w.element = NULL THEN [w EXCEPT !.threw = TRUE]
    ELSE LET m == [w EXCEPT !.innerText = formatTime(w.format, 0),
                            !.classList = @ \cup {"complete"}]
         IN IF m.onComplete # NoCallback THEN InvokeOnComplete(m) ELSE m

\* complete() that also zeroes remainingTime.
completeZeroes(w) ==
    LET p == pause(w)
    IN IF p.element = NULL THEN [p EXCEPT !.threw = TRUE]
       ELSE LET m == [p EXCEPT !.remainingTime = 0,
                               !.innerText = formatTime(p.format, 0),
                               !.classList = @ \cup {"complete"}]
            IN IF m.onComplete # NoCallback THEN InvokeOnComplete(m) ELSE m

\* complete() that invokes onComplete before touching the element.
completeCallbackFirst(w) ==
    LET p == pause(w)
    IN IF p.element = NULL THEN [p EXCEPT !.threw = TRUE]
       ELSE LET c == IF p.onComplete # NoCallback THEN InvokeOnComplete(p) ELSE p
            IN [c EXCEPT !.innerText = formatTime(c.format, 0),
                         !.classList = @ \cup {"complete"}]

\* complete() that forgets the "complete" class.
completeNoMarker(w) ==
    LET p == pause(w)
    IN IF p.element = NULL THEN [p EXCEPT !.threw = TRUE]
       ELSE LET m == [p EXCEPT !.innerText = formatTime(p.format, 0)]
            IN IF m.onComplete # NoCallback THEN InvokeOnComplete(m) ELSE m

complete(w) ==
    LET p == pause(w)
    IN IF p.element = NULL THEN [p EXCEPT !.threw = TRUE]
       ELSE LET m == [p EXCEPT !.innerText = formatTime(p.format, 0),
                               !.classList = @ \cup {"complete"}]
            IN IF m.onComplete # NoCallback THEN InvokeOnComplete(m) ELSE m

RECURSIVE RunBody(_, _)
RunBody(body, w) ==
    IF body = <<>> THEN w
    ELSE LET op == Head(body)
             w1 == CASE op = "start" -> start(w)
                      [] op = "pause" -> pause(w)
                      [] op = "reset" -> reset(w)
                      [] op = "complete" -> complete(w)
         IN RunBody(Tail(body), w1)

InvokeOnTick(w) ==
    RunBody(w.onTick,
            [w EXCEPT !.onTickLog = Append(@, <<w.remainingTime, w.innerText>>)])

\* The callback invoking onTick before the decrement.
IntervalCallbackTickFirst(w) ==
    IF w.remainingTime > 0
    THEN LET t == IF w.onTick # NoCallback THEN InvokeOnTick(w) ELSE w
             d == [t EXCEPT !.remainingTime = @ - 1, !.epochDecs = @ + 1]
         IN updateDisplay(d)
    ELSE complete(w)

\* The callback with >= in place of >.
IntervalCallbackNoFloor(w) ==
    IF w.remainingTime >= 0
    THEN LET d == [w EXCEPT !.remainingTime = @ - 1, !.epochDecs = @ + 1]
             u == updateDisplay(d)
         IN IF u.onTick # NoCallback THEN InvokeOnTick(u) ELSE u
    ELSE complete(w)

\* The callback completing in the tick whose decrement reaches 0.
IntervalCallbackEager(w) ==
    IF w.remainingTime > 0
    THEN LET d == [w EXCEPT !.remainingTime = @ - 1, !.epochDecs = @ + 1]
             u == updateDisplay(d)
             t == IF u.onTick # NoCallback THEN InvokeOnTick(u) ELSE u
         IN IF t.remainingTime = 0 THEN complete(t) ELSE t
    ELSE complete(w)

\* The arrow function handed to setInterval in start().
IntervalCallback(w) ==
    IF w.remainingTime > 0
    THEN LET d == [w EXCEPT !.remainingTime = @ - 1, !.epochDecs = @ + 1]
             u == updateDisplay(d)
         IN IF u.onTick # NoCallback THEN InvokeOnTick(u) ELSE u
    ELSE complete(w)

(***************************************************************************)
(* Construction.                                                           *)
(***************************************************************************)
Blank ==
    [element |-> NULL, duration |-> Undefined, remainingTime |-> Undefined,
     interval |-> Undefined, format |-> "undefined", onComplete |-> NoCallback,
     onTick |-> NoCallback, innerText |-> "", classList |-> {},
     timers |-> {}, nextId |-> FirstHandle, threw |-> FALSE,
     completeCalls |-> 0, epochCompletes |-> 0, epochDecs |-> 0, onTickLog |-> <<>>]

\* The constructor without its render() call.
constructorNoRender(found, d, options) ==
    IF ~found THEN Blank
    ELSE [Blank EXCEPT
            !.element = "element",
            !.duration = d,
            !.remainingTime = d,
            !.interval = NoHandle,
            !.format = IF options.format # "" THEN options.format ELSE "mm:ss",
            !.onComplete = options.onComplete,
            !.onTick = options.onTick]

constructor(found, d, options) ==
    IF ~found THEN Blank
    ELSE render([Blank EXCEPT
                    !.element = "element",
                    !.duration = d,
                    !.remainingTime = d,
                    !.interval = NoHandle,
                    !.format = IF options.format # "" THEN options.format ELSE "mm:ss",
                    !.onComplete = options.onComplete,
                    !.onTick = options.onTick])

\* initializeTimer that starts without looking at timer.element.
initializeTimerAlwaysStarts(found, d, options) ==
    LET timer == constructor(found, d, options)
    IN [timer |-> start(timer),
        returned |-> IF timer.element # NULL THEN "timer" ELSE "null"]

initializeTimer(found, d, options) ==
    LET timer == constructor(found, d, options)
    IN IF timer.element # NULL
       THEN [timer |-> start(timer), returned |-> "timer"]
       ELSE [timer |-> timer, returned |-> "null"]

Snapshot(w) ==
    [remainingTime |-> w.remainingTime, interval |-> w.interval,
     innerText |-> w.innerText, classList |-> w.classList, timers |-> w.timers]

Install(w) ==
    /\ element = w.element
    /\ duration = w.duration
    /\ remainingTime = w.remainingTime
    /\ interval = w.interval
    /\ format = w.format
    /\ onComplete = w.onComplete
    /\ onTick = w.onTick
    /\ innerText = w.innerText
    /\ classList = w.classList
    /\ timers = w.timers
    /\ nextId = w.nextId
    /\ threw = w.threw
    /\ completeCalls = w.completeCalls
    /\ epochCompletes = w.epochCompletes
    /\ epochDecs = w.epochDecs
    /\ onTickLog = w.onTickLog

\* The state right after `new Timeable(...)` or `initializeTimer(...)`.
Construct(found, d, options, how) ==
    LET made == IF how = "new"
                THEN [timer |-> constructor(found, d, options), returned |-> "timer"]
                ELSE initializeTimer(found, d, options)
    IN /\ Install(made.timer)
       /\ result = made.returned
       /\ via = how
       /\ lastOp = how
       /\ prev = Snapshot(Blank)
       /\ nTicks = 0
       /\ nCalls = 0
       /\ starts = IF Truthy(made.timer.interval) THEN 1 ELSE 0
       /\ others = 0
       /\ resumedAt = IF Truthy(made.timer.interval) THEN d ELSE Undefined

Init ==
    \E found \in BOOLEAN, d \in Durations, f \in Formats,
       oc \in OnCompleteBodies \cup {NoCallback},
       ot \in OnTickBodies \cup {NoCallback},
       how \in {"new", "initializeTimer"} :
        Construct(found, d, [format |-> f, onComplete |-> oc, onTick |-> ot], how)

(***************************************************************************)
(* Actions: the host's calls and the scheduler's firing of the callback.   *)
(***************************************************************************)
Commit(w, op) ==
    /\ element' = w.element
    /\ duration' = w.duration
    /\ remainingTime' = w.remainingTime
    /\ interval' = w.interval
    /\ format' = w.format
    /\ onComplete' = w.onComplete
    /\ onTick' = w.onTick
    /\ innerText' = w.innerText
    /\ classList' = w.classList
    /\ timers' = w.timers
    /\ nextId' = w.nextId
    /\ threw' = w.threw
    /\ completeCalls' = w.completeCalls
    /\ epochCompletes' = w.epochCompletes
    /\ epochDecs' = w.epochDecs
    /\ onTickLog' = w.onTickLog
    /\ lastOp' = op
    /\ prev' = Snapshot(World)
    /\ UNCHANGED <<result, via>>

HostCall ==
    /\ result = "timer"
    /\ nCalls < MaxCalls
    /\ nCalls' = nCalls + 1
    /\ nTicks' = nTicks

Start ==
    /\ HostCall
    /\ Commit(start(World), "start")
    /\ starts' = starts + 1
    /\ others' = others
    /\ resumedAt' = IF Truthy(interval) THEN resumedAt ELSE remainingTime

Pause ==
    /\ HostCall
    /\ Commit(pause(World), "pause")
    /\ others' = others + 1
    /\ UNCHANGED <<starts, resumedAt>>

Reset ==
    /\ HostCall
    /\ Commit(reset(World), "reset")
    /\ starts' = 0
    /\ others' = 0
    /\ resumedAt' = Undefined

Complete ==
    /\ HostCall
    /\ Commit(complete(World), "complete")
    /\ others' = others + 1
    /\ UNCHANGED <<starts, resumedAt>>

\* The host calls the public method render().
Render ==
    /\ HostCall
    /\ Commit(render(World), "render")
    /\ others' = others + 1
    /\ UNCHANGED <<starts, resumedAt>>

\* The host calls the public method updateDisplay().
UpdateDisplay ==
    /\ HostCall
    /\ Commit(updateDisplay(World), "updateDisplay")
    /\ others' = others + 1
    /\ UNCHANGED <<starts, resumedAt>>

\* The scheduler fires an active interval callback.
FireTick ==
    /\ \E handle \in timers : Commit(IntervalCallback(World), "tick")
    /\ nTicks' = nTicks + 1
    /\ UNCHANGED <<nCalls, starts, others, resumedAt>>

Tick ==
    /\ nTicks < MaxTicks
    /\ FireTick

Next == Start \/ Pause \/ Reset \/ Complete \/ Render \/ UpdateDisplay \/ Tick

Spec == Init /\ [][Next]_vars

(***************************************************************************)
(* Formatting runs: a widget made by initializeTimer for every duration of *)
(* FormatSeconds and every format of FormatInputs, without callbacks,      *)
(* counting down; the constructor and every tick render through           *)
(* formatTime.                                                             *)
(***************************************************************************)
FormatInit ==
    \E d \in FormatSeconds, f \in FormatInputs :
        Construct(TRUE, d, [format |-> f, onComplete |-> NoCallback,
                            onTick |-> NoCallback], "initializeTimer")

FormatNext == Tick \/ Render \/ UpdateDisplay

FormatSpec == FormatInit /\ [][FormatNext]_vars

(***************************************************************************)
(* Runs under the scheduler's guarantee: while an interval is active its   *)
(* callback keeps being fired.  Callbacks make no lifecycle calls, so each *)
(* activation ends after at most duration + 1 ticks and the tick count     *)
(* needs no cap.  The widgets use the default format.                      *)
(***************************************************************************)
LiveInit ==
    /\ Init
    /\ format \in {"mm:ss", "undefined"}
    /\ onTick \in {NoCallback, <<>>}
    /\ onComplete \in {NoCallback, <<>>}

LiveNext ==
    Start \/ Pause \/ Reset \/ Complete \/ Render \/ UpdateDisplay \/ FireTick

LiveSpec == LiveInit /\ [][LiveNext]_vars /\ WF_vars(FireTick)

(***************************************************************************)
(* Properties.                                                             *)
(***************************************************************************)
Constructed == element # NULL

\* Callbacks that make no lifecycle call of their own.
Passive == onTick \in {NoCallback, <<>>} /\ onComplete \in {NoCallback, <<>>}

Calls(body, op) == body # NoCallback /\ \E i \in 1..Len(body) : body[i] = op

\* One start() on a fresh or reset widget, then only ticks.
SingleRun == Constructed /\ Passive /\ starts = 1 /\ others = 0

ZeroText == formatTime(format, 0)

\* C1 (as stated): constructed with d >= 1, started once, after exactly d
\* ticks and no other call the display reads the zero string, the "complete"
\* marker is set and onComplete has run exactly once.
C1_CompleteAfterDTicks ==
    (/\ Constructed /\ via = "new" /\ Passive /\ onComplete # NoCallback
     /\ duration >= 1 /\ nCalls = 1 /\ starts = 1 /\ nTicks = duration)
    => (/\ innerText = ZeroText
        /\ "complete" \in classList
        /\ completeCalls = 1)

\* C2: in a run of one start() followed only by ticks, onComplete runs and the
\* marker is added exactly once: a widget showing the marker has stopped (no
\* handle, no active callback), and before that onComplete has not run.
C2_CompletesOnce ==
    SingleRun =>
        /\ epochCompletes =
              IF "complete" \in classList /\ onComplete # NoCallback THEN 1 ELSE 0
        /\ "complete" \in classList =>
              (interval = NoHandle /\ timers = {} /\ remainingTime = 0)

C2_Witness ==
    /\ SingleRun /\ onComplete = <<>> /\ duration >= 1
    /\ lastOp = "tick" /\ prev.remainingTime = 0 /\ Truthy(prev.interval)
    /\ "complete" \in classList /\ epochCompletes = 1 /\ timers = {}

\* C3 (as stated): between construction (or the last reset()) and the next
\* reset(), onComplete is invoked at most once, whatever start() / complete()
\* calls follow the first completion.
C3_AtMostOncePerEpoch == Constructed => epochCompletes <= 1

\* C4: start() never changes remaining, the text or the marker; on a running
\* widget it changes nothing at all, and after any start() exactly one
\* callback is scheduled, so a tick takes exactly 1 off remaining.
C4_StartFrame ==
    [][(lastOp' = "start" /\ Constructed) =>
          /\ remainingTime' = remainingTime
          /\ innerText' = innerText
          /\ classList' = classList
          /\ Cardinality(timers') = 1
          /\ Truthy(interval) => World' = World]_vars
    /\ [][(lastOp' = "tick" /\ Constructed /\ Passive /\ remainingTime > 0) =>
             remainingTime' = remainingTime - 1]_vars

C4_Witness ==
    /\ Constructed /\ Passive /\ via = "new"
    /\ nCalls = 2 /\ starts = 2
    /\ lastOp = "tick" /\ nTicks = 1
    /\ prev.remainingTime = duration /\ remainingTime = duration - 1
    /\ Cardinality(timers) = 1

\* C5: the handle is set exactly when one interval callback of the widget is
\* active, it is that callback's handle, and never are two callbacks active.
C5_HandleInSync ==
    /\ Cardinality(timers) <= 1
    /\ Truthy(interval) <=> timers = {interval}
    /\ Constructed => (interval # NoHandle <=> Cardinality(timers) = 1)

C5_Witness ==
    /\ Constructed /\ onComplete = <<"reset", "start">>
    /\ lastOp = "tick" /\ prev.remainingTime = 0 /\ Truthy(prev.interval)
    /\ Truthy(interval) /\ interval # prev.interval /\ timers = {interval}

\* C6: pause() never changes remaining, the text or the marker; on a running
\* widget it only cancels the callback and clears the handle, otherwise it
\* changes nothing; after it no callback is left to tick.
C6_PauseFrame ==
    [][(lastOp' = "pause" /\ Constructed) =>
          /\ remainingTime' = remainingTime
          /\ innerText' = innerText
          /\ classList' = classList
          /\ timers' = {}
          /\ IF Truthy(interval)
             THEN World' = [World EXCEPT !.interval = NoHandle,
                                         !.timers = @ \ {interval}]
             ELSE World' = World]_vars

C6_Witness ==
    /\ Constructed /\ lastOp = "pause"
    /\ Truthy(prev.interval) /\ interval = NoHandle /\ timers = {}
    /\ 0 < remainingTime /\ remainingTime < duration
    /\ remainingTime = prev.remainingTime /\ innerText = prev.innerText

\* C7: remaining is the duration minus the ticks that found remaining > 0
\* (since construction or the last reset()); the first tick after a start()
\* that resumed at r > 0 leaves r - 1.
C7_ResumeFromPaused ==
    Constructed =>
        /\ remainingTime = duration - epochDecs
        /\ (/\ lastOp = "tick" /\ Passive
            /\ resumedAt > 0 /\ prev.remainingTime = resumedAt)
           => remainingTime = resumedAt - 1

C7_Witness ==
    /\ Constructed /\ Passive /\ lastOp = "tick"
    /\ others >= 1 /\ starts >= 2
    /\ 0 < resumedAt /\ resumedAt < duration
    /\ prev.remainingTime = resumedAt /\ remainingTime = resumedAt - 1
    /\ remainingTime # duration - 1

\* C8: reset() leaves remaining = duration, the text showing the duration,
\* no "complete" marker and the widget stopped; duration, format and
\* callbacks are untouched.
C8_ResetRestores ==
    [][(lastOp' = "reset" /\ Constructed) =>
          /\ remainingTime' = duration
          /\ innerText' = formatTime(format, duration)
          /\ "complete" \notin classList'
          /\ interval' = NoHandle /\ timers' = {}
          /\ UNCHANGED <<duration, format, onComplete, onTick, element>>]_vars

C8_Witness ==
    /\ Constructed /\ lastOp = "reset" /\ duration >= 2
    /\ Truthy(prev.interval) /\ prev.remainingTime < duration
    /\ remainingTime = duration /\ interval = NoHandle /\ timers = {}
    /\ innerText = formatTime(format, duration) /\ innerText # prev.innerText

\* C9: a tick at remaining > 0 takes exactly 1 off, shows the new value, then
\* hands the new value to onTick, and does not complete; a tick at
\* remaining = 0 completes and neither decrements nor calls onTick.
C9_TickBranches ==
    [][(lastOp' = "tick" /\ Constructed) =>
          IF remainingTime > 0
          THEN /\ onTickLog' =
                    IF onTick # NoCallback
                    THEN Append(onTickLog, <<remainingTime - 1,
                                             formatTime(format, remainingTime - 1)>>)
                    ELSE onTickLog
               /\ ~Calls(onTick, "complete") => completeCalls' = completeCalls
               /\ onTick \in {NoCallback, <<>>} =>
                    World' = [World EXCEPT
                                !.remainingTime = @ - 1,
                                !.innerText = formatTime(format, remainingTime - 1),
                                !.epochDecs = @ + 1,
                                !.onTickLog = onTickLog']
          ELSE /\ onTickLog' = onTickLog
               /\ remainingTime' >= remainingTime
               /\ completeCalls' =
                    completeCalls + (IF onComplete # NoCallback THEN 1 ELSE 0)
               /\ onComplete \in {NoCallback, <<>>} =>
                    /\ remainingTime' = 0 /\ epochDecs' = epochDecs
                    /\ innerText' = ZeroText
                    /\ "complete" \in classList'
                    /\ interval' = NoHandle /\ timers' = {}]_vars

C9_Witness ==
    /\ Constructed /\ lastOp = "tick" /\ onTick = <<>>
    /\ prev.remainingTime = remainingTime + 1
    /\ Len(onTickLog) >= 2
    /\ onTickLog[Len(onTickLog)] = <<remainingTime, innerText>>
    /\ completeCalls = 0

\* C10: 0 <= remaining <= duration always; only a reset() (from the host or
\* from inside a callback) ever increases remaining.
C10_RemainingInRange ==
    /\ [](Constructed => (0 <= remainingTime /\ remainingTime <= duration))
    /\ [][(Constructed /\ remainingTime' > remainingTime) =>
             \/ lastOp' = "reset"
             \/ lastOp' = "tick" /\ Calls(onTick, "reset")
             \/ lastOp' \in {"tick", "complete"} /\ Calls(onComplete, "reset")]_vars

C10_Witness ==
    /\ Constructed /\ duration >= 1 /\ lastOp = "tick"
    /\ prev.remainingTime = 0 /\ remainingTime = 0

\* C11: when the element is not found nothing throws, no timer field is
\* assigned, nothing is rendered, and initializeTimer returns null with no
\* callback scheduled (and the discarded object never acts); when it is found
\* initializeTimer returns the widget with its callback active.
C11_SoftFailure ==
    /\ lastOp \in {"new", "initializeTimer"} =>
          /\ ~threw
          /\ element = NULL =>
                /\ duration = Undefined /\ remainingTime = Undefined
                /\ interval = Undefined /\ format = "undefined"
                /\ onComplete = NoCallback /\ onTick = NoCallback
                /\ innerText = "" /\ classList = {} /\ timers = {}
          /\ via = "initializeTimer" =>
                IF element = NULL
                THEN result = "null"
                ELSE result = "timer" /\ Truthy(interval) /\ timers = {interval}
    /\ result = "null" =>
          element = NULL /\ timers = {} /\ lastOp = "initializeTimer"

C11_Witness ==
    /\ via = "initializeTimer" /\ lastOp = "initializeTimer"
    /\ element = NULL /\ result = "null"
    /\ timers = {} /\ interval = Undefined /\ innerText = ""

\* C16: right after a successful construction remaining is the duration, the
\* text shows the formatted duration, the marker is absent and the widget is
\* not running.
C16_FreshWidget ==
    (lastOp = "new" /\ Constructed) =>
        /\ duration \in Durations
        /\ remainingTime = duration
        /\ innerText = formatTime(format, duration)
        /\ classList = {"timeable-timer"}
        /\ interval = NoHandle /\ timers = {}
        /\ completeCalls = 0 /\ onTickLog = <<>>

C16_Witness ==
    /\ lastOp = "new" /\ Constructed
    /\ duration = 3 /\ remainingTime = 3
    /\ format = "hh:mm:ss" /\ innerText = "00:00:03"
    /\ interval = NoHandle /\ timers = {}

\* Reference rendering, built digit by digit.
Digit(n) == SubSeq("0123456789", n + 1, n + 1)

TwoDigits(n) == IF n < 100 THEN Digit(n \div 10) \o Digit(n % 10) ELSE ToString(n)

Hours(s) == s \div 3600
Minutes(s) == (s % 3600) \div 60
Seconds(s) == s % 60

Reference(fmt, s) ==
    CASE fmt = "ss" -> TwoDigits(Seconds(s))
      [] fmt = "mm:ss" -> TwoDigits(Minutes(s)) \o ":" \o TwoDigits(Seconds(s))
      [] fmt = "hh:mm:ss" ->
            TwoDigits(Hours(s)) \o ":" \o TwoDigits(Minutes(s)) \o ":"
                \o TwoDigits(Seconds(s))

\* C12: for the formats "ss", "mm:ss" and "hh:mm:ss" and every s in range the
\* rendered text is the reference rendering of hours, minutes and seconds,
\* and the four quoted examples come out as quoted.
C12_FormatMatchesReference ==
    /\ format \in {"ss", "mm:ss", "hh:mm:ss"} =>
          innerText = Reference(format, remainingTime)
    /\ formatTime("ss", 65) = "05"
    /\ formatTime("mm:ss", 65) = "01:05"
    /\ formatTime("hh:mm:ss", 3661) = "01:01:01"
    /\ formatTime("mm:ss", 0) = "00:00"

C12_Witness ==
    /\ lastOp = "tick" /\ format = "hh:mm:ss"
    /\ prev.remainingTime = 3661 /\ remainingTime = 3660
    /\ prev.innerText = "01:01:01" /\ innerText = "01:01:00"

\* The requested components in hour, minute, second order.
Components(fmt, s) ==
    (IF includes(fmt, "hh") THEN <<TwoDigits(Hours(s))>> ELSE <<>>)
    \o (IF includes(fmt, "mm") THEN <<TwoDigits(Minutes(s))>> ELSE <<>>)
    \o (IF includes(fmt, "ss") THEN <<TwoDigits(Seconds(s))>> ELSE <<>>)

RECURSIVE JoinColon(_)
JoinColon(parts) ==
    IF parts = <<>> THEN ""
    ELSE IF Len(parts) = 1 THEN parts[1]
    ELSE parts[1] \o ":" \o JoinColon(Tail(parts))

\* C13 (as stated): for every set of tokens the format holds, the rendered
\* text is the requested components joined by single colons, with no colon
\* before the first or after the last; no token gives the empty string.
C13_ColonJoined ==
    innerText = JoinColon(Components(format, remainingTime))

\* C14: start() on a stopped widget showing the marker at remaining = 0 is
\* not refused: it schedules a callback, and the next tick completes again
\* (onComplete runs again, marker and remaining = 0 stay) and stops again.
C14_StartFromComplete ==
    /\ [][(/\ lastOp' = "start" /\ Constructed /\ ~Truthy(interval)
           /\ "complete" \in classList /\ remainingTime = 0) =>
             /\ Truthy(interval') /\ timers' = {interval'}
             /\ remainingTime' = 0 /\ "complete" \in classList']_vars
    /\ [][(/\ lastOp' = "tick" /\ Constructed
           /\ "complete" \in classList /\ remainingTime = 0) =>
             /\ completeCalls' =
                  completeCalls + (IF onComplete # NoCallback THEN 1 ELSE 0)
             /\ onComplete \in {NoCallback, <<>>} =>
                  /\ "complete" \in classList' /\ remainingTime' = 0
                  /\ interval' = NoHandle /\ timers' = {}]_vars

C14_Witness ==
    /\ Constructed /\ Passive /\ onComplete = <<>>
    /\ starts = 2 /\ others = 0 /\ lastOp = "tick"
    /\ "complete" \in prev.classList /\ prev.remainingTime = 0
    /\ epochCompletes = 2 /\ remainingTime = 0
    /\ "complete" \in classList /\ interval = NoHandle /\ timers = {}

\* The only host call since construction is the one start().
FreshRun == SingleRun /\ nCalls = (IF via = "new" THEN 1 ELSE 0)

Min(a, b) == IF a < b THEN a ELSE b

\* C17: in an uninterrupted run from d, onTick is called once per tick with
\* d-1, ..., 0, at most d times, and completion (marker, onComplete) happens
\* on tick d+1, one tick after onTick(0); for d = 0 the first tick completes.
C17_TickSequence ==
    (FreshRun /\ onTick = <<>>) =>
        /\ nTicks <= duration + 1
        /\ Len(onTickLog) = Min(nTicks, duration)
        /\ \A i \in 1..Len(onTickLog) : onTickLog[i][1] = duration - i
        /\ "complete" \in classList <=> nTicks = duration + 1
        /\ completeCalls =
             IF nTicks = duration + 1 /\ onComplete # NoCallback THEN 1 ELSE 0

C17_Witness ==
    /\ FreshRun /\ onTick = <<>> /\ onComplete = <<>> /\ format = "ss"
    /\ duration = 3 /\ nTicks = 4 /\ lastOp = "tick"
    /\ onTickLog = << <<2, "02">>, <<1, "01">>, <<0, "00">> >>
    /\ completeCalls = 1

\* C18 (as stated): in every reachable state the text is the formatted
\* remaining time and the marker is set only when remaining = 0.
C18_DisplayConsistent ==
    Constructed =>
        /\ innerText = formatTime(format, remainingTime)
        /\ "complete" \in classList => remainingTime = 0

\* C19: complete() leaves remaining and duration alone, shows the zero string
\* and stops the timer; only reset() removes the marker; a start() after a
\* direct complete() at r > 0 counts down from r with the marker still set.
C19_CompleteFrame ==
    /\ [][(lastOp' = "complete" /\ Constructed) =>
             /\ duration' = duration
             /\ ~Calls(onComplete, "reset") =>
                  /\ remainingTime' = remainingTime
                  /\ innerText' = ZeroText
                  /\ "complete" \in classList'
             /\ onComplete \in {NoCallback, <<>>} =>
                  interval' = NoHandle /\ timers' = {}]_vars
    /\ [][(Constructed /\ "complete" \in classList /\ "complete" \notin classList') =>
             \/ lastOp' = "reset"
             \/ lastOp' = "tick" /\ Calls(onTick, "reset")
             \/ lastOp' \in {"tick", "complete"} /\ Calls(onComplete, "reset")]_vars
    /\ [][(/\ lastOp' = "start" /\ Constructed /\ ~Truthy(interval)
           /\ "complete" \in classList) =>
             /\ remainingTime' = remainingTime /\ "complete" \in classList'
             /\ Truthy(interval') /\ timers' = {interval'}]_vars
    /\ [][(/\ lastOp' = "tick" /\ Constructed /\ Passive
           /\ "complete" \in classList /\ remainingTime > 0) =>
             remainingTime' = remainingTime - 1 /\ "complete" \in classList']_vars

C19_Witness ==
    /\ Constructed /\ Passive /\ lastOp = "tick"
    /\ others >= 1 /\ resumedAt = prev.remainingTime /\ resumedAt >= 1
    /\ "complete" \in prev.classList /\ "complete" \in classList
    /\ remainingTime = resumedAt - 1
    /\ innerText = formatTime(format, remainingTime)

\* C20: when onComplete calls reset() then start(), the completing tick ends
\* running at the full duration with the marker cleared and one callback
\* active, and onComplete runs once per cycle of duration + 1 ticks; when
\* onTick calls pause(), the tick's decrement is kept and the widget stops.
C20_ReentrantCalls ==
    /\ [][(/\ lastOp' = "tick" /\ Constructed /\ remainingTime = 0
           /\ onComplete = <<"reset", "start">>) =>
             /\ Truthy(interval') /\ timers' = {interval'}
             /\ remainingTime' = duration
             /\ innerText' = formatTime(format, duration)
             /\ "complete" \notin classList'
             /\ completeCalls' = completeCalls + 1]_vars
    /\ [][(/\ lastOp' = "tick" /\ Constructed /\ remainingTime > 0
           /\ onTick = <<"pause">>) =>
             /\ remainingTime' = remainingTime - 1
             /\ innerText' = formatTime(format, remainingTime - 1)
             /\ interval' = NoHandle /\ timers' = {}]_vars
    /\ []((/\ Constructed /\ onComplete = <<"reset", "start">>
           /\ onTick \in {NoCallback, <<>>}
           /\ starts = 1 /\ others = 0
           /\ nCalls = (IF via = "new" THEN 1 ELSE 0)) =>
             completeCalls = nTicks \div (duration + 1))

C20_Witness ==
    /\ Constructed /\ onComplete = <<"reset", "start">> /\ onTick = <<>>
    /\ duration >= 1 /\ lastOp = "tick" /\ prev.remainingTime = 0
    /\ completeCalls = 2 /\ remainingTime = duration
    /\ Truthy(interval) /\ timers = {interval} /\ interval # prev.interval
    /\ "complete" \notin classList /\ innerText = formatTime(format, duration)

\* The widget has completed and stopped.
Completed ==
    /\ "complete" \in classList /\ innerText = ZeroText /\ remainingTime = 0
    /\ onComplete # NoCallback => epochCompletes = 1
    /\ interval = NoHandle /\ timers = {}

\* C15: while ticks keep being delivered, a started widget on which the host
\* makes no further call reaches the completed state, where no callback is
\* active; and a widget with no active callback never ticks.
C15_EventuallyComplete ==
    /\ (SingleRun /\ Truthy(interval)) ~> (Completed \/ ~SingleRun)
    /\ [][timers = {} => lastOp' # "tick"]_vars

C15_Witness ==
    /\ SingleRun /\ Completed /\ lastOp = "tick" /\ onComplete = <<>>
    /\ duration = 3 /\ nTicks = 4 /\ Truthy(prev.interval)

====
